---- MODULE Spec2Model ----
(***************************************************************************)
(* A model of html_generator.py: render_html_report and the fragment       *)
(* builders it calls.                                                      *)
(*                                                                         *)
(* Representation.  A Python dict with optional keys is a function whose   *)
(* DOMAIN is the set of keys present.  A dict whose iteration order        *)
(* matters (the mapping-shaped new_titles) is a sequence of key/value      *)
(* records with distinct keys.  None is the empty set and a supplied value *)
(* v is {v}.  An HTML fragment is a sequence of nodes, the empty string    *)
(* being << >>; a node is a record of the values interpolated into the     *)
(* markup.  Formatted numbers are kept as numbers: the rank display        *)
(* "{r}wei" is <<r>>, "{min}-{max}wei" is <<min, max>> and "" is << >>.    *)
(* A word is a sequence of characters in which each keyword of the         *)
(* category tables is one character; the Chinese keywords and the default  *)
(* platform name are written in pinyin.                                    *)
(***************************************************************************)
EXTENDS Integers, Sequences, FiniteSets, TLC

VARIABLES pc, template, report_data, total_titles, hot_news_count,
          word_count, failed_ids, new_titles, id_to_name,
          now, error_section, word_groups_html, new_news_section, html,
          raised

vars == <<pc, template, report_data, total_titles, hot_news_count,
          word_count, failed_ids, new_titles, id_to_name,
          now, error_section, word_groups_html, new_news_section, html,
          raised>>

\* the template file and the arguments of the call: never assigned
inputs == <<template, report_data, total_titles, hot_news_count,
            word_count, failed_ids, new_titles, id_to_name>>

----------------------------------------------------------------------------
(* Bounds of the explored inputs *)

MaxStats == 3
MaxCount == 21
MaxTitles == 21
MaxRank == 11
MaxRanks == 3
MaxFailed == 3
MaxSources == 2
MaxNew == 11

----------------------------------------------------------------------------
(* Python helpers *)

None == {}

Some(v) == {v}

Value(o) == CHOOSE v \in o : TRUE

Get(d, k, default) == IF k \in DOMAIN d THEN d[k] ELSE default

Only(d, keys) == [k \in keys \cap DOMAIN d |-> d[k]]

Take(s, n) == IF Len(s) <= n THEN s ELSE SubSeq(s, 1, n)

RECURSIVE MinOf(_)
MinOf(s) ==
    IF Len(s) = 1 THEN s[1]
    ELSE LET m == MinOf(Tail(s)) IN IF s[1] <= m THEN s[1] ELSE m

RECURSIVE MaxOf(_)
MaxOf(s) ==
    IF Len(s) = 1 THEN s[1]
    ELSE LET m == MaxOf(Tail(s)) IN IF s[1] >= m THEN s[1] ELSE m

RECURSIVE Sum(_)
Sum(s) == IF s = << >> THEN 0 ELSE s[1] + Sum(Tail(s))

----------------------------------------------------------------------------
(* generate_word_group_html *)

TitleLimit == 20

\* the default of title_info.get("source_name", ...) and source_data.get(...)
UnknownPlatform == <<"weizhi pingtai">>

IsSpace(c) == c = " "

RECURSIVE SkipSpaces(_)
SkipSpaces(w) ==
    IF w # << >> /\ IsSpace(w[1]) THEN SkipSpaces(Tail(w)) ELSE w

RECURSIVE TakeToken(_, _)
TakeToken(w, stop) ==
    IF w = << >> \/ w[1] \in stop THEN << >>
    ELSE <<w[1]>> \o TakeToken(Tail(w), stop)

\* re.match(r'^(#\s*[^#\s]+)', word): << >> when there is no match
CategoryMatch(word) ==
    IF word = << >> \/ word[1] # "#" THEN << >>
    ELSE LET rest == SkipSpaces(Tail(word))
             tok == TakeToken(rest, {"#", " "})
         IN IF tok = << >> THEN << >>
            ELSE SubSeq(word, 1, Len(word) - Len(rest) + Len(tok))

DisplayName(word) ==
    LET m == CategoryMatch(word)
        first == TakeToken(SkipSpaces(word), {" "})
    IN IF m # << >> THEN m
       ELSE IF first # << >> THEN first
       ELSE word

HotClassMut(count) ==
    IF count > 20 THEN "hot" ELSE IF count > 10 THEN "warm" ELSE "normal"

HotClass(count) ==
    IF count >= 20 THEN "hot" ELSE IF count >= 10 THEN "warm" ELSE "normal"

HotText(count) ==
    IF count >= 20 THEN [fire |-> TRUE, count |-> count]
    ELSE [fire |-> FALSE, count |-> count]

MusicWords == {"yinyue", "yanchanghui", "douyin", "Bzhan", "bilibili"}

EntertainmentWords == {"dianying", "yuanshen", "heishenhua", "youxi"}

SocialWords == {"pangdonglai", "996", "tiaoxiu", "fangjia"}

Contains(word, keys) == \E i \in 1..Len(word) : word[i] \in keys

Category(word) ==
    IF Contains(word, MusicWords) THEN "music"
    ELSE IF Contains(word, EntertainmentWords) THEN "entertainment"
    ELSE IF Contains(word, SocialWords) THEN "social"
    ELSE "tech"

RankClassMut(ranks) ==
    IF ranks # << >> /\ ranks[1] <= 3 THEN "top"
    ELSE IF ranks # << >> /\ ranks[1] <= 10 THEN "high"
    ELSE ""

RankClass(ranks) ==
    IF ranks # << >> /\ MinOf(ranks) <= 3 THEN "top"
    ELSE IF ranks # << >> /\ MinOf(ranks) <= 10 THEN "high"
    ELSE ""

RankDisplay(ranks) ==
    IF ranks = << >> THEN << >>
    ELSE IF Len(ranks) = 1 THEN <<ranks[1]>>
    ELSE <<MinOf(ranks), MaxOf(ranks)>>

TimeDisplay(title_info) ==
    LET times == <<Get(title_info, "time_display", "")>>
    IN IF Len(times) = 1 THEN times[1] ELSE <<times[1], times[Len(times)]>>

NewsItem(idx, title_info) ==
    [idx |-> idx,
     title |-> title_info["title"],
     source |-> Get(title_info, "source_name", UnknownPlatform),
     rank_class |-> RankClass(Get(title_info, "ranks", << >>)),
     rank_display |-> RankDisplay(Get(title_info, "ranks", << >>)),
     time_display |-> TimeDisplay(title_info),
     url |-> Get(title_info, "url", ""),
     is_new |-> Get(title_info, "is_new", FALSE)]

NewsItemsMut(titles) ==
    [idx \in 1..Len(titles) |-> NewsItem(idx, titles[idx])]

NewsItems(titles) ==
    LET shown == Take(titles, TitleLimit)
    IN [idx \in 1..Len(shown) |-> NewsItem(idx, shown[idx])]

generate_word_group_html(stat) ==
    <<[category |-> Category(stat["word"]),
       display_name |-> DisplayName(stat["word"]),
       hot_class |-> HotClass(stat["count"]),
       hot_text |-> HotText(stat["count"]),
       items |-> NewsItems(stat["titles"])]>>

----------------------------------------------------------------------------
(* generate_new_news_html *)

NewLimit == 10

NewRankClass(rank) ==
    IF rank <= 3 THEN "top" ELSE IF rank <= 10 THEN "high" ELSE ""

NewItem(idx, title, rank, url) ==
    [idx |-> idx, rank_class |-> NewRankClass(rank), rank |-> rank,
     url |-> url, title |-> title]

\* the loop of lines 219-238 over list(titles.items())[:10]
DictItems(titles) ==
    LET shown == Take(titles, NewLimit)
    IN [idx \in 1..Len(shown) |->
           NewItem(idx, shown[idx].title,
                   Get(shown[idx].data, "rank", 0),
                   Get(shown[idx].data, "url", ""))]

\* id_to_name.get(source_id, source_id): None has no attribute get
SourceNameRaises(id_to_name_arg) == id_to_name_arg = None

SourceName(source_id, id_to_name_arg) ==
    Get(Value(id_to_name_arg), source_id, source_id)

RECURSIVE DictGroups(_, _)
DictGroups(sources, names) ==
    IF sources = << >> THEN << >>
    ELSE LET s == sources[1]
         IN (IF s.titles # << >>
             THEN <<[source_name |-> SourceName(s.id, names),
                     count |-> Len(s.titles),
                     items |-> DictItems(s.titles)]>>
             ELSE << >>) \o DictGroups(Tail(sources), names)

\* title_info.get("ranks", [0])[0] if title_info.get("ranks") else 0
FirstRank(title_info) ==
    IF Get(title_info, "ranks", << >>) # << >>
    THEN Get(title_info, "ranks", <<0>>)[1]
    ELSE 0

\* the loop of lines 256-276 over titles[:10]
ListItems(titles) ==
    LET shown == Take(titles, NewLimit)
    IN [idx \in 1..Len(shown) |->
           NewItem(idx, Get(shown[idx], "title", ""),
                   FirstRank(shown[idx]),
                   Get(shown[idx], "url", ""))]

RECURSIVE ListGroups(_)
ListGroups(sources) ==
    IF sources = << >> THEN << >>
    ELSE LET source_name == Get(sources[1], "source_name", UnknownPlatform)
             titles == Get(sources[1], "titles", << >>)
         IN (IF titles # << >>
             THEN <<[source_name |-> source_name,
                     count |-> Len(titles),
                     items |-> ListItems(titles)]>>
             ELSE << >>) \o ListGroups(Tail(sources))

DictTotal(sources) ==
    Sum([i \in 1..Len(sources) |-> Len(sources[i].titles)])

ListTotal(sources) ==
    Sum([i \in 1..Len(sources) |-> Len(Get(sources[i], "titles", << >>))])

\* not new_titles: None, {} and [] are all falsy
Falsy(nt) == nt = None \/ Value(nt).val = << >>

IsDict(nt) == nt # None /\ Value(nt).shape = "dict"

IsList(nt) == nt # None /\ Value(nt).shape = "list"

\* line 216 is reached for the first source that has titles
NewNewsRaises(nt, names) ==
    /\ ~Falsy(nt)
    /\ IsDict(nt)
    /\ \E i \in 1..Len(Value(nt).val) : Value(nt).val[i].titles # << >>
    /\ SourceNameRaises(names)

generate_new_news_html(nt, names) ==
    IF Falsy(nt) THEN [raised |-> "", val |-> << >>]
    ELSE IF NewNewsRaises(nt, names)
    THEN [raised |-> "AttributeError", val |-> << >>]
    ELSE IF IsDict(nt)
    THEN [raised |-> "",
          val |-> <<[total_count |-> DictTotal(Value(nt).val),
                     groups |-> DictGroups(Value(nt).val, names)]>>]
    ELSE [raised |-> "",
          val |-> <<[total_count |-> ListTotal(Value(nt).val),
                     groups |-> ListGroups(Value(nt).val)]>>]

AnyTitlesMut(nt) == ~Falsy(nt)

\* lines 65-74: whether render_html_report calls generate_new_news_html
AnyTitles(nt) ==
    /\ ~Falsy(nt)
    /\ \/ /\ IsDict(nt)
          /\ \E i \in 1..Len(Value(nt).val) : Len(Value(nt).val[i].titles) > 0
       \/ /\ IsList(nt)
          /\ \E i \in 1..Len(Value(nt).val) :
                 Len(Get(Value(nt).val[i], "titles", << >>)) > 0

\* lines 63-74 of render_html_report
NewNewsSection(nt, names) ==
    IF AnyTitles(nt) THEN generate_new_news_html(nt, names)
    ELSE [raised |-> "", val |-> << >>]

----------------------------------------------------------------------------
(* render_html_report *)

Slots == {"total_titles", "hot_news_count", "word_count", "update_time",
          "generation_time", "error_section", "word_groups",
          "new_news_section", "save_script"}

\* get_save_script returns a fixed string
SaveScript == "async function saveAsImage() ..."

\* the instants datetime.now may return
Clock == {[day |-> 1, hour |-> 9, minute |-> 5],
          [day |-> 2, hour |-> 23, minute |-> 59]}

\* now.strftime("%H:%M")
UpdateTime(t) == <<t.hour, t.minute>>

\* now.strftime of the long date followed by the time and the suffix
GenerationTime(t) == <<t.day, t.hour, t.minute>>

ErrorSectionMut(ids) ==
    IF ids = None THEN << >>
    ELSE <<[title |-> "error-title",
            items |-> [i \in 1..Len(Value(ids)) |-> Value(ids)[i]]]>>

\* lines 45-55: if failed_ids is truthy, one list item per identifier
ErrorSection(ids) ==
    IF ids = None \/ Value(ids) = << >> THEN << >>
    ELSE <<[title |-> "error-title",
            items |-> [i \in 1..Len(Value(ids)) |-> Value(ids)[i]]]>>

RECURSIVE WordGroupsMut(_)
WordGroupsMut(stats) ==
    IF stats = << >> THEN << >>
    ELSE (IF stats[1]["count"] >= 0
          THEN generate_word_group_html(stats[1])
          ELSE << >>) \o WordGroupsMut(Tail(stats))

\* lines 58-61: the loop over report_data.get("stats", [])
RECURSIVE WordGroups(_)
WordGroups(stats) ==
    IF stats = << >> THEN << >>
    ELSE (IF stats[1]["count"] > 0
          THEN generate_word_group_html(stats[1])
          ELSE << >>) \o WordGroups(Tail(stats))

\* the keyword arguments of template.substitute
Mapping ==
    [total_titles |-> total_titles,
     hot_news_count |-> hot_news_count,
     word_count |-> word_count,
     update_time |-> UpdateTime(Value(now)),
     generation_time |-> GenerationTime(Value(now)),
     error_section |-> Value(error_section),
     word_groups |-> Value(word_groups_html),
     new_news_section |-> Value(new_news_section),
     save_script |-> SaveScript]

TemplateExistsMut(t) == TRUE

\* template_path.exists()
TemplateExists(t) == t.exists

\* load_template, the file exists
LoadTemplate ==
    /\ pc = "load"
    /\ TemplateExists(template)
    /\ pc' = "clock"
    /\ UNCHANGED <<inputs, now, error_section, word_groups_html,
                   new_news_section, html, raised>>

\* load_template, the file does not exist
LoadTemplateMissing ==
    /\ pc = "load"
    /\ ~TemplateExists(template)
    /\ pc' = "raised"
    /\ raised' = "FileNotFoundError"
    /\ UNCHANGED <<inputs, now, error_section, word_groups_html,
                   new_news_section, html>>

ReadClock ==
    /\ pc = "clock"
    /\ \E t \in Clock : now' = Some(t)
    /\ pc' = "error"
    /\ UNCHANGED <<inputs, error_section, word_groups_html,
                   new_news_section, html, raised>>

BuildErrorSection ==
    /\ pc = "error"
    /\ error_section' = Some(ErrorSection(failed_ids))
    /\ pc' = "words"
    /\ UNCHANGED <<inputs, now, word_groups_html, new_news_section, html,
                   raised>>

BuildWordGroups ==
    /\ pc = "words"
    /\ word_groups_html' = Some(WordGroups(Get(report_data, "stats", << >>)))
    /\ pc' = "new"
    /\ UNCHANGED <<inputs, now, error_section, new_news_section, html,
                   raised>>

BuildNewNews ==
    /\ pc = "new"
    /\ NewNewsSection(new_titles, id_to_name).raised = ""
    /\ new_news_section' = Some(NewNewsSection(new_titles, id_to_name).val)
    /\ pc' = "substitute"
    /\ UNCHANGED <<inputs, now, error_section, word_groups_html, html,
                   raised>>

BuildNewNewsRaises ==
    /\ pc = "new"
    /\ NewNewsSection(new_titles, id_to_name).raised # ""
    /\ new_news_section' = Some(<< >>)
    /\ raised' = NewNewsSection(new_titles, id_to_name).raised
    /\ pc' = "raised"
    /\ UNCHANGED <<inputs, now, error_section, word_groups_html, html>>

\* template.substitute: every placeholder of the template is replaced
Substitute ==
    /\ pc = "substitute"
    /\ template.placeholders \subseteq DOMAIN Mapping
    /\ html' = Some([p \in template.placeholders |-> Mapping[p]])
    /\ pc' = "done"
    /\ UNCHANGED <<inputs, now, error_section, word_groups_html,
                   new_news_section, raised>>

\* template.substitute: a placeholder without a keyword argument
SubstituteRaises ==
    /\ pc = "substitute"
    /\ ~(template.placeholders \subseteq DOMAIN Mapping)
    /\ raised' = "KeyError"
    /\ pc' = "raised"
    /\ UNCHANGED <<inputs, now, error_section, word_groups_html,
                   new_news_section, html>>

----------------------------------------------------------------------------
(* The calls explored: families of arguments, each varying one part of the *)
(* input over a bounded set while the rest stays small                     *)

Id(i) == <<"id", i>>

Name(i) == <<"name", i>>

\* the template of section 6: the nine placeholders
GoodTemplate == [exists |-> TRUE, placeholders |-> Slots]

\* no file, the template, and a template with one more placeholder
Templates ==
    {[exists |-> FALSE, placeholders |-> {}],
     GoodTemplate,
     [exists |-> TRUE, placeholders |-> Slots \cup {"unknown"}]}

OptionalKeys == {"source_name", "ranks", "time_display", "url", "is_new"}

\* the i-th title record of a stat, all fields present, ranked ranks
FullTitle(i, ranks) ==
    [title |-> i, source_name |-> Name(i % 3), ranks |-> ranks,
     time_display |-> "09:05", url |-> "u", is_new |-> (i % 2 = 0)]

\* n title records; when bare they carry the title only
Titles(n, bare) ==
    [i \in 1..n |->
        Only(FullTitle(i, IF i % 4 = 0 THEN <<i, i + 1>> ELSE <<i>>),
             IF bare THEN {"title"} ELSE {"title"} \cup OptionalKeys)]

SeqsUpTo(S, n) == UNION {[1..k -> S] : k \in 0..n}

Words ==
    {<<"#", "c", "j", " ", "n">>, <<"n", "w", " ", "q">>, << >>,
     <<" ", " ">>, <<"#", " ", "c", " ", "x">>, <<"#", "#", "x">>,
     <<" ", "a">>, <<"#", "yinyue", " ", "youxi">>, <<"youxi", "996">>,
     <<"x", "996">>, <<"#">>}

Letters == <<"a", "b", "c", "d", "e", "f">>

Args(t, rd, f, nt, names) ==
    [template |-> t, report_data |-> rd, total_titles |-> 7,
     hot_news_count |-> 3, word_count |-> 2, failed_ids |-> f,
     new_titles |-> nt, id_to_name |-> names]

OneStat(word, count, titles) ==
    [stats |-> <<[word |-> word, count |-> count, titles |-> titles]>>]

\* several stats, positive and non-positive counts mixed
StatsCalls ==
    {Args(t, [stats |-> [i \in 1..Len(cs) |->
                  [word |-> <<"#", Letters[i]>>, count |-> cs[i],
                   titles |-> Titles(1, FALSE)]]], None, None, None) :
        t \in Templates, cs \in SeqsUpTo({-1, 0, 5, 20}, MaxStats)}
    \cup {Args(t, << >>, None, None, None) : t \in Templates}

WordCalls ==
    {Args(t, OneStat(w, 1, << >>), None, None, None) :
        t \in Templates, w \in Words}

\* one stat, every count
CountCalls ==
    {Args(GoodTemplate, OneStat(<<"w">>, c, Titles(n, FALSE)),
          None, None, None) :
        c \in 0..MaxCount, n \in 0..1}

\* one stat, every number of titles
HotCalls ==
    {Args(GoodTemplate, OneStat(<<"w">>, c, Titles(n, b)),
          None, None, None) :
        c \in {1, 20}, n \in 0..MaxTitles, b \in BOOLEAN}

\* the ranks around the thresholds 3 and 10
RankValues == {2, 3, 4, 5, 10} \cup 11..MaxRank

\* one title, every list of ranks
RankCalls ==
    {Args(GoodTemplate, OneStat(<<"w">>, 1, <<FullTitle(1, rs)>>),
          None, None, None) :
        rs \in SeqsUpTo(RankValues, MaxRanks)}

\* one title, every set of optional fields
OptionalCalls ==
    {Args(t, OneStat(<<"w">>, 1,
                     <<Only(FullTitle(1, <<2, 5>>), {"title"} \cup ks)>>),
          f, None, names) :
        t \in Templates, ks \in SUBSET OptionalKeys,
        f \in {None, Some(<<"a">>)}, names \in {None, Some(<< >>)}}

FailedCalls ==
    {Args(t, rd, Some(f), None, None) :
        t \in Templates, rd \in {<< >>, [stats |-> << >>]},
        f \in SeqsUpTo({"a", "b"}, MaxFailed)}

\* the k titles of a mapping-shaped source, ranked 1..k
DictTitles(k, bare) ==
    [i \in 1..k |->
        [title |-> i,
         data |-> IF bare THEN << >> ELSE [rank |-> i, url |-> "u"]]]

Injective(f) == \A i, j \in DOMAIN f : f[i] = f[j] => i = j

SourceCounts(n) == IF n = 1 THEN 0..MaxNew ELSE {0, 1, MaxNew}

DictsOver(ids) ==
    {[shape |-> "dict",
      val |-> [i \in 1..Len(ids) |->
                  [id |-> Id(ids[i]), titles |-> DictTitles(ks[i], b)]]] :
        ks \in [1..Len(ids) -> SourceCounts(Len(ids))], b \in BOOLEAN}

\* mapping-shaped values: distinct source ids in every order
Dicts ==
    UNION {DictsOver(ids) :
              ids \in {s \in SeqsUpTo(1..MaxSources, MaxSources) :
                          Injective(s)}}

NameMaps ==
    {None, Some(<< >>), Some([i \in {Id(1)} |-> Name(1)]),
     Some([i \in {Id(j) : j \in 1..MaxSources} |-> Name(i[2])])}

\* the display name the specification gives a source of the mapping shape
ResolvedName(source_id, names) ==
    IF names # None /\ source_id \in DOMAIN Value(names)
    THEN Value(names)[source_id]
    ELSE source_id

\* the sequence-shaped value describing the same data as the mapping d
EquivalentList(d, names) ==
    [shape |-> "list",
     val |-> [i \in 1..Len(d.val) |->
                 [source_name |-> ResolvedName(d.val[i].id, names),
                  titles |-> [j \in 1..Len(d.val[i].titles) |->
                      LET e == d.val[i].titles[j]
                      IN Only([title |-> e.title,
                               url |-> Get(e.data, "url", ""),
                               ranks |-> <<Get(e.data, "rank", 0)>>],
                              {"title"} \cup
                              (IF "url" \in DOMAIN e.data
                               THEN {"url"} ELSE {}) \cup
                              (IF "rank" \in DOMAIN e.data
                               THEN {"ranks"} ELSE {}))]]]]

\* a sequence-shaped value with optional fields left out
Sparse(l, sparse) ==
    [shape |-> "list",
     val |-> [i \in 1..Len(l.val) |->
                 Only(l.val[i],
                      (IF sparse /\ i = 1 THEN {} ELSE {"source_name"}) \cup
                      (IF sparse /\ l.val[i].titles = << >>
                       THEN {} ELSE {"titles"}))]]

Lists ==
    {Sparse(EquivalentList(d, names), sparse) :
        d \in Dicts, names \in {None, Some([i \in {Id(1)} |-> Name(1)])},
        sparse \in BOOLEAN}

NewCalls ==
    {Args(t, << >>, None, Some(nt), names) :
        t \in Templates, nt \in Dicts, names \in NameMaps}
    \cup {Args(GoodTemplate, << >>, None, Some(nt), None) : nt \in Lists}
    \cup {Args(t, << >>, None, None, names) :
        t \in Templates, names \in NameMaps}

Calls ==
    StatsCalls \cup WordCalls \cup CountCalls \cup HotCalls \cup RankCalls
    \cup OptionalCalls \cup FailedCalls \cup NewCalls

Init ==
    /\ pc = "load"
    /\ \E c \in Calls :
          /\ template = c.template
          /\ report_data = c.report_data
          /\ total_titles = c.total_titles
          /\ hot_news_count = c.hot_news_count
          /\ word_count = c.word_count
          /\ failed_ids = c.failed_ids
          /\ new_titles = c.new_titles
          /\ id_to_name = c.id_to_name
    /\ now = None
    /\ error_section = None
    /\ word_groups_html = None
    /\ new_news_section = None
    /\ html = None
    /\ raised = ""

Next ==
    \/ LoadTemplate
    \/ LoadTemplateMissing
    \/ ReadClock
    \/ BuildErrorSection
    \/ BuildWordGroups
    \/ BuildNewNews
    \/ BuildNewNewsRaises
    \/ Substitute
    \/ SubstituteRaises

Spec == Init /\ [][Next]_vars

----------------------------------------------------------------------------
(* Properties *)

Stats == Get(report_data, "stats", << >>)

\* the stats that are shown, in the order of report_data
Shown == SelectSeq(Stats, LAMBDA st : st["count"] > 0)

Min(S) == CHOOSE m \in S : \A r \in S : m <= r

Max(S) == CHOOSE m \in S : \A r \in S : m >= r

Smaller(a, b) == IF a <= b THEN a ELSE b

Complete(doc) ==
    /\ DOMAIN doc = Slots
    /\ doc["total_titles"] = total_titles
    /\ doc["hot_news_count"] = hot_news_count
    /\ doc["word_count"] = word_count
    /\ doc["update_time"] = UpdateTime(Value(now))
    /\ doc["generation_time"] = GenerationTime(Value(now))
    /\ doc["error_section"] = Value(error_section)
    /\ doc["word_groups"] = Value(word_groups_html)
    /\ doc["new_news_section"] = Value(new_news_section)
    /\ doc["save_script"] = SaveScript

\* C1: the word_groups fragment is the concatenation, in the order of
\* report.stats, of one hot-group block per stat with count > 0; stats with
\* count <= 0 contribute nothing; with stats empty or absent the fragment is
\* empty and a completed render has every slot filled.
C1_WordGroupsInOrder ==
    word_groups_html # None =>
        LET frag == Value(word_groups_html)
        IN /\ Len(frag) = Len(Shown)
           /\ \A i \in 1..Len(Shown) :
                  <<frag[i]>> = generate_word_group_html(Shown[i])
           /\ (Stats = << >> => frag = << >>)
           /\ (Stats = << >> /\ pc = "done" =>
                  /\ html # None
                  /\ Complete(Value(html))
                  /\ Value(html)["word_groups"] = << >>)

C1_Witness ==
    /\ pc = "done"
    /\ Len(Stats) = 3
    /\ Stats[1]["count"] = 20 /\ Stats[2]["count"] = 0
    /\ Stats[3]["count"] = 5
    /\ Len(Value(word_groups_html)) = 2
    /\ Value(word_groups_html)[1].display_name = <<"#", "a">>
    /\ Value(word_groups_html)[2].display_name = <<"#", "c">>

\* C2: every count gets exactly one heat level: "hot" with the fire prefix
\* iff count >= 20, "warm" without prefix iff 10 <= count <= 19, "normal"
\* without prefix iff count < 10.
C2_HeatLevel ==
    \A i \in 1..Len(Stats) :
        LET c == Stats[i]["count"]
            b == generate_word_group_html(Stats[i])[1]
        IN /\ b.hot_class \in {"hot", "warm", "normal"}
           /\ (b.hot_class = "hot" <=> c >= 20)
           /\ (b.hot_class = "warm" <=> (10 <= c /\ c <= 19))
           /\ (b.hot_class = "normal" <=> c < 10)
           /\ b.hot_text = [fire |-> (c >= 20), count |-> c]
           /\ (word_groups_html # None /\ c > 0 =>
                  \E k \in 1..Len(Value(word_groups_html)) :
                      Value(word_groups_html)[k] = b)

C2_Witness ==
    /\ pc = "done"
    /\ Len(Stats) = 1
    /\ Stats[1]["count"] = 20
    /\ Value(word_groups_html)[1].hot_class = "hot"
    /\ Value(word_groups_html)[1].hot_text.fire

ExpectedRankClass(ranks) ==
    LET R == {ranks[k] : k \in 1..Len(ranks)}
    IN IF R = {} THEN ""
       ELSE IF Min(R) <= 3 THEN "top"
       ELSE IF Min(R) <= 10 THEN "high"
       ELSE ""

ExpectedRankDisplay(ranks) ==
    LET R == {ranks[k] : k \in 1..Len(ranks)}
    IN IF Len(ranks) = 0 THEN << >>
       ELSE IF Len(ranks) = 1 THEN <<ranks[1]>>
       ELSE <<Min(R), Max(R)>>

\* C3: the rank class and rank display of a rendered title depend only on
\* its ranks: both empty without ranks; otherwise "top" if the least rank is
\* <= 3, "high" if it is in 4..10 and empty above 10, and the display is the
\* single rank or least-greatest, whatever the order of the ranks.
C3_RankClassAndDisplay ==
    word_groups_html # None =>
        \A i \in 1..Len(Shown) :
            \A j \in 1..Len(Value(word_groups_html)[i].items) :
                LET item == Value(word_groups_html)[i].items[j]
                    ranks == Get(Shown[i]["titles"][j], "ranks", << >>)
                IN /\ item.rank_class = ExpectedRankClass(ranks)
                   /\ item.rank_display = ExpectedRankDisplay(ranks)

C3_Witness ==
    /\ pc = "done"
    /\ Len(Shown) = 1
    /\ Len(Shown[1]["titles"]) = 1
    /\ Get(Shown[1]["titles"][1], "ranks", << >>) = <<5, 2>>
    /\ Value(word_groups_html)[1].items[1].rank_display = <<2, 5>>
    /\ Value(word_groups_html)[1].items[1].rank_class = "top"

\* C4: a stat with n titles renders min(n, 20) rows: the first min(n, 20)
\* titles in input order, numbered 1..min(n, 20); later titles never appear
\* and do not change the rows of the first 20.
C4_TitleLimit ==
    word_groups_html # None =>
        \A i \in 1..Len(Shown) :
            LET titles == Shown[i]["titles"]
                items == Value(word_groups_html)[i].items
            IN /\ Len(items) = Smaller(Len(titles), 20)
               /\ \A j \in 1..Len(items) :
                      /\ items[j].idx = j
                      /\ items[j].title = titles[j]["title"]
                      /\ items[j] = NewsItem(j, titles[j])
               /\ items = NewsItems(Take(titles, 20))

C4_Witness ==
    /\ pc = "done"
    /\ Len(Shown) = 1
    /\ Len(Shown[1]["titles"]) = 21
    /\ Len(Value(word_groups_html)[1].items) = 20
    /\ Value(word_groups_html)[1].items[20].title = 20

\* the titles of each source of new_titles, whatever its shape
SourceTitles ==
    IF new_titles = None THEN << >>
    ELSE LET v == Value(new_titles).val
         IN IF Value(new_titles).shape = "dict"
            THEN [i \in 1..Len(v) |->
                     [j \in 1..Len(v[i].titles) |-> v[i].titles[j].title]]
            ELSE [i \in 1..Len(v) |->
                     LET ts == Get(v[i], "titles", << >>)
                     IN [j \in 1..Len(ts) |-> Get(ts[j], "title", "")]]

WithTitles == SelectSeq(SourceTitles, LAMBDA ts : ts # << >>)

TotalTitles == Sum([i \in 1..Len(SourceTitles) |-> Len(SourceTitles[i])])

\* the new-items step of this call is over
NewNewsBuilt ==
    \/ pc \in {"substitute", "done"}
    \/ pc = "raised" /\ raised # "FileNotFoundError"

\* the section has one group per source with titles, truncated to 10 rows
Grouped(sec) ==
    /\ sec.total_count = TotalTitles
    /\ Len(sec.groups) = Len(WithTitles)
    /\ \A i \in 1..Len(WithTitles) :
           LET g == sec.groups[i]
               k == Len(WithTitles[i])
           IN /\ g.count = k
              /\ Len(g.items) = Smaller(k, 10)
              /\ \A j \in 1..Len(g.items) :
                     /\ g.items[j].idx = j
                     /\ g.items[j].title = WithTitles[i][j]

\* C5: for either shape, each source with k >= 1 titles yields one group
\* with the first min(k, 10) titles in order, indexed 1..min(k, 10), headed
\* by the untruncated k; sources without titles yield no group; the
\* document-level count is the sum of k over all sources.
C5_NewGroups ==
    /\ (NewNewsBuilt /\ WithTitles # << >> =>
           /\ raised # "AttributeError"
           /\ Len(Value(new_news_section)) = 1
           /\ Grouped(Value(new_news_section)[1]))
    /\ (new_titles # None /\ Value(new_titles).val # << >>
           /\ WithTitles = << >> =>
           LET r == generate_new_news_html(new_titles, id_to_name)
           IN /\ r.raised = ""
              /\ Len(r.val) = 1
              /\ Grouped(r.val[1]))

\* the part of C5 that the code satisfies: calls that supply id_to_name or
\* pass the sequence shape
NewGroupsWhenNamed ==
    IsList(new_titles) \/ id_to_name # None => C5_NewGroups

NewGroupsWhenNamed_Witness ==
    /\ pc = "done"
    /\ IsDict(new_titles)
    /\ Len(WithTitles) = 2
    /\ Len(WithTitles[1]) = 11
    /\ Value(new_news_section)[1].total_count = 22
    /\ Len(Value(new_news_section)[1].groups[2].items) = 10

\* the outcome of the new-items step for the arguments nt
SameOutcome(r) ==
    /\ (r.raised # "") = (raised = "AttributeError")
    /\ r.raised = "" => new_news_section = Some(r.val)

\* C6: a mapping-shaped new_titles and the sequence-shaped value describing
\* the same data give the same new_news_section: same total, same groups in
\* the same order, same rows.
C6_ShapesEquivalent ==
    NewNewsBuilt /\ IsDict(new_titles) =>
        SameOutcome(NewNewsSection(
            Some(EquivalentList(Value(new_titles), id_to_name)), id_to_name))

\* the part of C6 that the code satisfies
ShapesEquivalentWhenNamed ==
    id_to_name # None => C6_ShapesEquivalent

\* C7: with an existing template the render never raises over a missing
\* optional input: title records lacking optional fields get the defaults,
\* failed_ids, new_titles and id_to_name may be omitted, and a source of a
\* mapping-shaped new_titles is labelled id_to_name[id] or else the raw id,
\* also when id_to_name is not supplied.
C7_OptionalInputs ==
    /\ (template.exists /\ template.placeholders = Slots => raised = "")
    /\ (word_groups_html # None =>
           \A i \in 1..Len(Shown) :
               \A j \in 1..Len(Value(word_groups_html)[i].items) :
                   LET item == Value(word_groups_html)[i].items[j]
                       t == Shown[i]["titles"][j]
                   IN /\ "source_name" \notin DOMAIN t =>
                             item.source = UnknownPlatform
                      /\ "ranks" \notin DOMAIN t =>
                             item.rank_display = << >> /\ item.rank_class = ""
                      /\ "url" \notin DOMAIN t => item.url = ""
                      /\ "time_display" \notin DOMAIN t =>
                             item.time_display = ""
                      /\ "is_new" \notin DOMAIN t => ~item.is_new)
    /\ (NewNewsBuilt /\ IsDict(new_titles) /\ WithTitles # << >> =>
           LET named == SelectSeq(Value(new_titles).val,
                                  LAMBDA src : src.titles # << >>)
           IN /\ Len(Value(new_news_section)) = 1
              /\ Len(Value(new_news_section)[1].groups) = Len(named)
              /\ \A i \in 1..Len(named) :
                     Value(new_news_section)[1].groups[i].source_name
                         = ResolvedName(named[i].id, id_to_name))

\* the part of C7 that the code satisfies
OptionalInputsWhenNamed ==
    (IsDict(new_titles) /\ WithTitles # << >> => id_to_name # None)
        => C7_OptionalInputs

\* C8: new_news_section is empty unless new_titles is supplied and some
\* source has a title; a rendered section has total_count >= 1 and at least
\* one source group.
C8_NewSectionOnlyWithTitles ==
    new_news_section # None /\ Value(new_news_section) # << >> =>
        /\ new_titles # None
        /\ WithTitles # << >>
        /\ Len(Value(new_news_section)) = 1
        /\ Value(new_news_section)[1].total_count >= 1
        /\ Len(Value(new_news_section)[1].groups) >= 1

C8_Witness ==
    /\ pc = "done"
    /\ IsList(new_titles)
    /\ \E i \in 1..Len(Value(new_titles).val) :
           "titles" \notin DOMAIN Value(new_titles).val[i]
    /\ Value(new_news_section) # << >>
    /\ Value(new_news_section)[1].total_count = 1

\* C9: error_section is empty when failed_ids is absent or empty; otherwise
\* it has one list item per element of failed_ids, in order, duplicates
\* kept, each the identifier unmodified.
C9_ErrorSection ==
    error_section # None =>
        LET frag == Value(error_section)
        IN IF failed_ids = None \/ Value(failed_ids) = << >>
           THEN frag = << >>
           ELSE /\ Len(frag) = 1
                /\ Len(frag[1].items) = Len(Value(failed_ids))
                /\ \A i \in 1..Len(Value(failed_ids)) :
                       frag[1].items[i] = Value(failed_ids)[i]

C9_Witness ==
    /\ pc = "done"
    /\ failed_ids = Some(<<"b", "a", "b">>)
    /\ Value(html)["error_section"][1].items = <<"b", "a", "b">>

\* C10: a missing template fails with the template-not-found error before
\* the clock is read or any fragment is built, and returns no document; a
\* call ends either with a complete document, all nine slots substituted,
\* or with a raised error and no document.
C10_AllOrNothing ==
    /\ (~template.exists =>
           /\ pc \in {"load", "raised"}
           /\ pc = "raised" => raised = "FileNotFoundError")
    /\ (raised = "FileNotFoundError" =>
           /\ ~template.exists
           /\ now = None /\ error_section = None
           /\ word_groups_html = None /\ new_news_section = None
           /\ html = None)
    /\ (pc = "done" =>
           /\ raised = ""
           /\ html # None
           /\ \A p \in Slots : p \in DOMAIN Value(html)
           /\ \A p \in Slots : Value(html)[p] = Mapping[p])
    /\ (pc = "raised" => raised # "" /\ html = None)
    /\ (html # None => pc = "done")
    /\ (pc \notin {"done", "raised"} => ENABLED Next)
    /\ (pc \in {"done", "raised"} => ~ENABLED Next)

C10_Witness ==
    /\ pc = "raised"
    /\ raised = "FileNotFoundError"
    /\ ~template.exists
    /\ failed_ids # None /\ Value(failed_ids) # << >>

====
